---- MODULE Spec2Model ----
\* Model of convert.py: the eBird checklist -> birdreport (Z4) conversion core.
\*
\* Python strings are modelled as sequences of characters, one element per
\* character.  A Chinese character is written as its pinyin syllable (with a
\* tone digit where two characters of the tables would otherwise coincide), so
\* "jin","ban","heng" is the three-character name of the Pacific Golden Plover
\* that line 19 of convert.py maps to "jin","heng".
EXTENDS Integers, Sequences, FiniteSets, TLC

VARIABLES
    pc,                 \* position of checklist_to_birdreport_info
    obs,                \* the rows of the DataFrame handed to obs_to_z4
    idx,                \* rows of obs already consumed by the loop of obs_to_z4
    convertible_list,   \* obs_to_z4 / checklist_to_birdreport_info local
    inconvertible_list, \* obs_to_z4 / checklist_to_birdreport_info local
    item_idx,           \* position of `for item in inconvertible_list` (1-based)
    new_name,           \* local new_name of the prompt loop (last value it held)
    try_chn_name,       \* local try_chn_name of the prompt loop
    error,              \* the exception that left the function, if any
    obs_list,           \* BirdReportInfo.obs_list of the returned report
    lst,                \* argument of a direct call of merge_subspecies
    merged,             \* its result
    remerged,           \* result of merge_subspecies applied to that result
    mpc                 \* position of the direct-call driver

vars == <<pc, obs, idx, convertible_list, inconvertible_list, item_idx, new_name,
          try_chn_name, error, obs_list, lst, merged, remerged, mpc>>

pipelineVars == <<pc, obs, idx, convertible_list, inconvertible_list, item_idx,
                  new_name, try_chn_name, error, obs_list>>

mergeVars == <<lst, merged, remerged, mpc>>

-----------------------------------------------------------------------------
\* Bounds of the model.

\* rows of a checklist
MaxObs == 2

\* entries of a list handed directly to merge_subspecies
MaxLen == 3

-----------------------------------------------------------------------------
\* Python values.

\* None, and pandas' NaN for a missing cell: values that are no string.
None == <<"None">>

NaN == <<"NaN">>

isna(v) == v = NaN \/ v = None

\* bool(x) of an Optional[str]: None and "" are false.
Truthy(s) == s # None /\ s # <<>>

LF == "\n"

Whitespace == {" ", "\t", LF}

RECURSIVE LStrip(_)
LStrip(s) == IF s # <<>> /\ Head(s) \in Whitespace THEN LStrip(Tail(s)) ELSE s

RECURSIVE RStrip(_)
RStrip(s) ==
    IF s # <<>> /\ s[Len(s)] \in Whitespace THEN RStrip(SubSeq(s, 1, Len(s) - 1)) ELSE s

\* str.strip()
Strip(s) == RStrip(LStrip(s))

\* `sub in s` for strings
Contains(s, sub) ==
    \E i \in 1..(Len(s) - Len(sub) + 1) : SubSeq(s, i, i + Len(sub) - 1) = sub

\* s.split(c)[0]: the part of s before the first c (all of s when c is not in it)
SplitFirst(s, c) ==
    IF \E i \in 1..Len(s) : s[i] = c
    THEN LET i == CHOOSE j \in 1..Len(s) : s[j] = c /\ \A k \in 1..(j - 1) : s[k] # c
         IN  SubSeq(s, 1, i - 1)
    ELSE s

\* s.replace(c, new) for a one-character c
RECURSIVE Replace(_, _, _)
Replace(s, c, new) ==
    IF s = <<>> THEN <<>>
    ELSE (IF Head(s) = c THEN new ELSE <<Head(s)>>) \o Replace(Tail(s), c, new)

Digits == {"0", "1", "2", "3", "4", "5", "6", "7", "8", "9"}

DigitVal(c) ==
    CASE c = "0" -> 0 [] c = "1" -> 1 [] c = "2" -> 2 [] c = "3" -> 3 [] c = "4" -> 4
      [] c = "5" -> 5 [] c = "6" -> 6 [] c = "7" -> 7 [] c = "8" -> 8 [] c = "9" -> 9

\* digits with single underscores between them
IsDigitPart(t) ==
    /\ t # <<>>
    /\ t[1] \in Digits
    /\ t[Len(t)] \in Digits
    /\ \A i \in 1..Len(t) : t[i] \in Digits \cup {"_"}
    /\ \A i \in 1..(Len(t) - 1) : ~(t[i] = "_" /\ t[i + 1] = "_")

RECURSIVE DigitsValue(_, _)
DigitsValue(t, acc) ==
    IF t = <<>> THEN acc
    ELSE IF Head(t) = "_" THEN DigitsValue(Tail(t), acc)
    ELSE DigitsValue(Tail(t), 10 * acc + DigitVal(Head(t)))

\* int(s) of a str: surrounding whitespace is dropped, one sign is allowed, and
\* anything else than a decimal literal raises ValueError.
PyInt(s) ==
    LET t    == Strip(s)
        sign == IF t # <<>> /\ Head(t) \in {"+", "-"} THEN Head(t) ELSE ""
        body == IF sign = "" THEN t ELSE Tail(t)
    IN  IF IsDigitPart(body)
        THEN [ok |-> TRUE,
              val |-> IF sign = "-" THEN 0 - DigitsValue(body, 0) ELSE DigitsValue(body, 0)]
        ELSE [ok |-> FALSE, val |-> 0]

-----------------------------------------------------------------------------
\* Names of the two taxonomies.

HeiEFengMei == <<"hei", "e", "feng", "mei">>

HeiKeFengMei == <<"hei", "ke", "feng", "mei">>

BeiYingXiao == <<"bei3", "ying", "xiao">>

RiBenYingXiao == <<"ri", "ben", "ying", "xiao">>

JinBanHeng == <<"jin", "ban", "heng">>

JinHeng == <<"jin", "heng">>

BaiGuanYanWei == <<"bai", "guan", "yan", "wei3">>

BaiEYanWei == <<"bai", "e", "yan", "wei3">>

ChengFuYeBei == <<"cheng", "fu", "ye", "bei1">>

XiNanChengFuYeBei == <<"xi", "nan">> \o ChengFuYeBei

JinYaoYan == <<"jin", "yao", "yan">>

WeiShiBieDe == <<"wei4", "shi", "bie", "de">>

WeiShiBieDeOu == WeiShiBieDe \o <<"ou">>

DaZuiWuYaCongLinYa == <<"da", "zui", "wu", "ya", "/", "cong", "lin", "ya">>

\* "\n" followed by the four characters of "count unknown"
CountUnknownNote == <<LF, "shu", "liang", "bu", "xiang">>

\* A taxonomy in the shape of db/eb_species_code_to_taxa.json: species code ->
\* comName.  One code per kind of name the resolver tells apart.
eb_species_code_to_taxa ==
    [c \in {"blcyuh1", "bkcyuh2", "gull", "orblea1", "y00678"} |->
        CASE c = "blcyuh1" -> HeiEFengMei
          [] c = "bkcyuh2" -> HeiKeFengMei \o <<" ", "(", "ya", "zhong", ")">>
          [] c = "gull"    -> WeiShiBieDeOu
          [] c = "orblea1" -> ChengFuYeBei
          [] c = "y00678"  -> DaZuiWuYaCongLinYa]

\* A translation table in the shape of db/birdreport_chn_name_to_taxa.json:
\* name -> the record's Chinese-name field.
birdreport_chn_name_to_taxa ==
    [n \in {HeiKeFengMei, BeiYingXiao, ChengFuYeBei, XiNanChengFuYeBei,
            WeiShiBieDeOu, JinHeng} |-> n]

extra_name_conversion ==
    [n \in {JinBanHeng, BeiYingXiao, HeiEFengMei, BaiGuanYanWei} |->
        CASE n = JinBanHeng    -> JinHeng
          [] n = BeiYingXiao   -> RiBenYingXiao
          [] n = HeiEFengMei   -> HeiKeFengMei
          [] n = BaiGuanYanWei -> BaiEYanWei]

name_for_specification == {ChengFuYeBei, JinYaoYan}

-----------------------------------------------------------------------------
\* Name resolution.

eb_name_to_z4_name_TableFirst(eb_name) ==
    IF eb_name \in DOMAIN birdreport_chn_name_to_taxa
    THEN birdreport_chn_name_to_taxa[eb_name]
    ELSE IF eb_name \in DOMAIN extra_name_conversion
    THEN extra_name_conversion[eb_name]
    ELSE None

eb_name_to_z4_name(eb_name) ==
    IF eb_name \in DOMAIN extra_name_conversion
    THEN extra_name_conversion[eb_name]
    ELSE IF eb_name \in DOMAIN birdreport_chn_name_to_taxa
    THEN birdreport_chn_name_to_taxa[eb_name]
    ELSE None

\* lines 43-44: the name without its parenthetical qualifier
StripQualifier(eb_com_name) ==
    IF Contains(eb_com_name, <<"(">>) THEN Strip(SplitFirst(eb_com_name, "(")) ELSE eb_com_name

\* line 45
Unresolvable(eb_com_name) ==
    Contains(eb_com_name, WeiShiBieDe) \/ eb_com_name \in name_for_specification

species_code_to_z4_name_NoExclusion(species_code) ==
    LET eb_com_name == StripQualifier(eb_species_code_to_taxa[species_code])
    IN  <<eb_com_name, eb_name_to_z4_name(eb_com_name)>>

\* Defined for the codes of the taxonomy; any other code raises KeyError (line 42).
species_code_to_z4_name(species_code) ==
    LET eb_com_name == StripQualifier(eb_species_code_to_taxa[species_code])
    IN  IF Unresolvable(eb_com_name)
        THEN <<eb_com_name, None>>
        ELSE <<eb_com_name, eb_name_to_z4_name(eb_com_name)>>

-----------------------------------------------------------------------------
\* Observations.

BirdReportObsInfo(chinese_name, count, note) ==
    [chinese_name |-> chinese_name, count |-> count, note |-> note]

NotImplemented == BirdReportObsInfo(<<"NotImplemented">>, 0, <<>>)

\* BirdReportObsInfo.__add__ with the notes joined the other way round
ObsAdd_NotesSwapped(self, other) ==
    IF self.chinese_name # other.chinese_name THEN NotImplemented
    ELSE BirdReportObsInfo(self.chinese_name,
                           self.count + other.count,
                           other.note \o <<LF>> \o self.note)

\* BirdReportObsInfo.__add__
ObsAdd(self, other) ==
    IF self.chinese_name # other.chinese_name THEN NotImplemented
    ELSE BirdReportObsInfo(self.chinese_name,
                           self.count + other.count,
                           self.note \o <<LF>> \o other.note)

-----------------------------------------------------------------------------
\* merge_subspecies.  A Python dict keeps its keys in the order of their first
\* insertion, and assigning to a key it holds leaves the key where it is:
\* merged_dict is a sequence of (key, value) records.

DictHas(d, k) == \E i \in 1..Len(d) : d[i].key = k

DictGet(d, k) == d[CHOOSE i \in 1..Len(d) : d[i].key = k].value

\* d[k] = v that moves the key to the end, as a list of pairs rebuilt on every
\* assignment would
DictSet_MoveToEnd(d, k, v) ==
    SelectSeq(d, LAMBDA e : e.key # k) \o <<[key |-> k, value |-> v]>>

\* d[k] = v
DictSet(d, k, v) ==
    IF DictHas(d, k)
    THEN [i \in 1..Len(d) |-> IF d[i].key = k THEN [key |-> k, value |-> v] ELSE d[i]]
    ELSE Append(d, [key |-> k, value |-> v])

DictValues(d) == [i \in 1..Len(d) |-> d[i].value]

\* lines 107-109
DuplicateNames(l) ==
    {n \in {l[i].chinese_name : i \in 1..Len(l)} :
        Cardinality({i \in 1..Len(l) : l[i].chinese_name = n}) > 1}

\* lines 114-122, from entry i on
RECURSIVE MergeLoop(_, _, _, _)
MergeLoop(l, i, duplicate_names, merged_dict) ==
    IF i > Len(l) THEN merged_dict
    ELSE LET it == l[i]
             d  == IF it.chinese_name \notin duplicate_names
                   THEN DictSet(merged_dict, it.chinese_name, it)
                   ELSE IF DictHas(merged_dict, it.chinese_name)
                   THEN DictSet(merged_dict, it.chinese_name,
                                ObsAdd(DictGet(merged_dict, it.chinese_name), it))
                   ELSE DictSet(merged_dict, it.chinese_name, it)
         IN  MergeLoop(l, i + 1, duplicate_names, d)

\* merge_subspecies without the merge: the list goes through as it came
merge_subspecies_Identity(l) == l

\* merge_subspecies that always builds the dict (no early return) and hands its
\* values back last-inserted first
merge_subspecies_Stack(l) ==
    LET v == DictValues(MergeLoop(l, 1, DuplicateNames(l), <<>>))
    IN  [i \in 1..Len(v) |-> v[Len(v) + 1 - i]]

merge_subspecies(l) ==
    LET duplicate_names == DuplicateNames(l)
    IN  IF duplicate_names = {} THEN l
        ELSE DictValues(MergeLoop(l, 1, duplicate_names, <<>>))

-----------------------------------------------------------------------------
\* The checklists and the prompter's answers the model draws from.

UnknownCode == "zzzz"

SpeciesCodes == DOMAIN eb_species_code_to_taxa \cup {UnknownCode}

\* howManyStr is one of: count not recorded "X", a count "12", a negative number
\* "-5", no number "abc".
\* comments: a missing cell, or a comment
Comments == {NaN, <<"o", "k">>}

\* The comment varies where the count is one the code accepts as it stands; a
\* row the code may stop at carries none.
CountAndComment ==
    ({<<"X">>, <<"1", "2">>} \X Comments) \cup ({<<"-", "5">>, <<"a", "b", "c">>} \X {NaN})

Rows ==
    {[speciesCode |-> c, howManyStr |-> p[1], comments |-> p[2]] :
        c \in SpeciesCodes, p \in CountAndComment}

SeqsUpTo(S, n) == UNION {[1..k -> S] : k \in 0..n}

\* what the user types at the prompt of line 176
Inputs == {<<"n">>, <<"N">>, <<"_">>, <<"xi", "nan", "_">>, BeiYingXiao, <<"x">>}

-----------------------------------------------------------------------------
\* obs_to_z4, one row of the DataFrame per step.

\* lines 82-101 for one row: the exception the row raises, or the Observation it
\* yields and the list that gets it
RowResult(item) ==
    LET note0     == IF ~isna(item.comments) THEN item.comments ELSE <<>>
        count_str == item.howManyStr
        isX       == count_str = <<"X">>
        parsed    == PyInt(count_str)
        count     == IF isX THEN 0 ELSE parsed.val
        note      == IF isX THEN note0 \o CountUnknownNote ELSE note0
    IN  IF ~isX /\ ~parsed.ok THEN [kind |-> "ValueError"]
        ELSE IF item.speciesCode \notin DOMAIN eb_species_code_to_taxa
        THEN [kind |-> "KeyError"]
        ELSE LET r == species_code_to_z4_name(item.speciesCode)
             IN  IF Truthy(r[2])
                 THEN [kind |-> "convertible", ob |-> BirdReportObsInfo(r[2], count, note)]
                 ELSE [kind |-> "inconvertible", ob |-> BirdReportObsInfo(r[1], count, note)]

Raise(e) ==
    /\ pc' = "raised"
    /\ error' = e
    /\ convertible_list' = <<>>
    /\ inconvertible_list' = <<>>
    /\ idx' = idx
    /\ UNCHANGED <<obs, item_idx, new_name, try_chn_name, obs_list>>

\* the loop body with the new Observation put in front of the list
ObsToZ4Row_Prepend ==
    /\ pc = "obs_to_z4"
    /\ idx < Len(obs)
    /\ LET r == RowResult(obs[idx + 1])
       IN  CASE r.kind \in {"ValueError", "KeyError"} -> Raise(r.kind)
             [] r.kind = "convertible" ->
                  /\ convertible_list' = <<r.ob>> \o convertible_list
                  /\ idx' = idx + 1
                  /\ UNCHANGED <<pc, obs, inconvertible_list, item_idx, new_name,
                                 try_chn_name, error, obs_list>>
             [] r.kind = "inconvertible" ->
                  /\ inconvertible_list' = <<r.ob>> \o inconvertible_list
                  /\ idx' = idx + 1
                  /\ UNCHANGED <<pc, obs, convertible_list, item_idx, new_name,
                                 try_chn_name, error, obs_list>>
    /\ UNCHANGED mergeVars

\* the loop body that steps over a row whose species code the taxonomy lacks
ObsToZ4Row_SkipUnknown ==
    /\ pc = "obs_to_z4"
    /\ idx < Len(obs)
    /\ LET r == RowResult(obs[idx + 1])
       IN  CASE r.kind = "ValueError" -> Raise(r.kind)
             [] r.kind = "KeyError" ->
                  /\ idx' = idx + 1
                  /\ UNCHANGED <<pc, obs, convertible_list, inconvertible_list, item_idx,
                                 new_name, try_chn_name, error, obs_list>>
             [] r.kind = "convertible" ->
                  /\ convertible_list' = Append(convertible_list, r.ob)
                  /\ idx' = idx + 1
                  /\ UNCHANGED <<pc, obs, inconvertible_list, item_idx, new_name,
                                 try_chn_name, error, obs_list>>
             [] r.kind = "inconvertible" ->
                  /\ inconvertible_list' = Append(inconvertible_list, r.ob)
                  /\ idx' = idx + 1
                  /\ UNCHANGED <<pc, obs, convertible_list, item_idx, new_name,
                                 try_chn_name, error, obs_list>>
    /\ UNCHANGED mergeVars

\* lines 80-101: one iteration of `for _, item in obs.iterrows()`
ObsToZ4Row ==
    /\ pc = "obs_to_z4"
    /\ idx < Len(obs)
    /\ LET r == RowResult(obs[idx + 1])
       IN  CASE r.kind \in {"ValueError", "KeyError"} -> Raise(r.kind)
             [] r.kind = "convertible" ->
                  /\ convertible_list' = Append(convertible_list, r.ob)
                  /\ idx' = idx + 1
                  /\ UNCHANGED <<pc, obs, inconvertible_list, item_idx, new_name,
                                 try_chn_name, error, obs_list>>
             [] r.kind = "inconvertible" ->
                  /\ inconvertible_list' = Append(inconvertible_list, r.ob)
                  /\ idx' = idx + 1
                  /\ UNCHANGED <<pc, obs, convertible_list, item_idx, new_name,
                                 try_chn_name, error, obs_list>>
    /\ UNCHANGED mergeVars

\* line 103, and line 170 taking the two lists
ObsToZ4Return ==
    /\ pc = "obs_to_z4"
    /\ idx = Len(obs)
    /\ pc' = "prompt"
    /\ item_idx' = 1
    /\ UNCHANGED <<obs, idx, convertible_list, inconvertible_list, new_name,
                   try_chn_name, error, obs_list>>
    /\ UNCHANGED mergeVars

-----------------------------------------------------------------------------
\* The manual-resolution loop of checklist_to_birdreport_info (lines 172-191),
\* one answer of the prompter per step.

Prompting == pc = "prompt" /\ item_idx <= Len(inconvertible_list)

SkipInputs == {<<"n">>, <<"N">>}

\* lines 179-180
PromptSkip(input) ==
    /\ Prompting
    /\ input \in SkipInputs
    /\ new_name' = input
    /\ item_idx' = item_idx + 1
    /\ UNCHANGED <<pc, obs, idx, convertible_list, inconvertible_list, try_chn_name,
                   error, obs_list>>
    /\ UNCHANGED mergeVars

\* the accepting branch taking the typed name itself when it has no translation
PromptAccept_Untranslated(input) ==
    /\ Prompting
    /\ input \notin SkipInputs
    /\ LET item == inconvertible_list[item_idx]
           name == Replace(input, "_", item.chinese_name)
           try  == eb_name_to_z4_name(name)
       IN  /\ name # <<>>
           /\ new_name' = name
           /\ try_chn_name' = try
           /\ convertible_list' =
                 Append(convertible_list,
                        BirdReportObsInfo(IF Truthy(try) THEN try ELSE name,
                                          item.count, item.note))
    /\ item_idx' = item_idx + 1
    /\ UNCHANGED <<pc, obs, idx, inconvertible_list, error, obs_list>>
    /\ UNCHANGED mergeVars

\* lines 182-188: the name translates
PromptAccept(input) ==
    /\ Prompting
    /\ input \notin SkipInputs
    /\ LET item == inconvertible_list[item_idx]
           name == Replace(input, "_", item.chinese_name)
           try  == eb_name_to_z4_name(name)
       IN  /\ Truthy(try)
           /\ new_name' = name
           /\ try_chn_name' = try
           /\ convertible_list' =
                 Append(convertible_list, BirdReportObsInfo(try, item.count, item.note))
    /\ item_idx' = item_idx + 1
    /\ UNCHANGED <<pc, obs, idx, inconvertible_list, error, obs_list>>
    /\ UNCHANGED mergeVars

\* lines 182-184, 189-191: the name does not translate
PromptReject(input) ==
    /\ Prompting
    /\ input \notin SkipInputs
    /\ LET item == inconvertible_list[item_idx]
           name == Replace(input, "_", item.chinese_name)
           try  == eb_name_to_z4_name(name)
       IN  /\ ~Truthy(try)
           /\ new_name' = name
           /\ try_chn_name' = try
    /\ UNCHANGED <<pc, obs, idx, convertible_list, inconvertible_list, item_idx,
                   error, obs_list>>
    /\ UNCHANGED mergeVars

\* lines 193-201
Assemble ==
    /\ pc = "prompt"
    /\ item_idx > Len(inconvertible_list)
    /\ obs_list' = merge_subspecies(convertible_list)
    /\ pc' = "done"
    /\ UNCHANGED <<obs, idx, convertible_list, inconvertible_list, item_idx, new_name,
                   try_chn_name, error>>
    /\ UNCHANGED mergeVars

Init ==
    /\ pc = "obs_to_z4"
    /\ obs \in SeqsUpTo(Rows, MaxObs)
    /\ idx = 0
    /\ convertible_list = <<>>
    /\ inconvertible_list = <<>>
    /\ item_idx = 0
    /\ new_name = None
    /\ try_chn_name = None
    /\ error = "none"
    /\ obs_list = <<>>
    /\ lst = <<>>
    /\ merged = <<>>
    /\ remerged = <<>>
    /\ mpc = "idle"

Next ==
    \/ ObsToZ4Row
    \/ ObsToZ4Return
    \/ \E input \in Inputs : PromptSkip(input)
    \/ \E input \in Inputs : PromptAccept(input)
    \/ \E input \in Inputs : PromptReject(input)
    \/ Assemble

Spec == Init /\ [][Next]_vars

-----------------------------------------------------------------------------
\* merge_subspecies called directly, on any list.

MergeNames == {HeiKeFengMei, JinHeng, RiBenYingXiao}

MergeCounts == {0, 12}

MergeNotes == {<<>>, <<"o", "k">>, CountUnknownNote}

MergeEntries ==
    {BirdReportObsInfo(n, c, t) : n \in MergeNames, c \in MergeCounts, t \in MergeNotes}

MergeCall ==
    /\ mpc = "call"
    /\ merged' = merge_subspecies(lst)
    /\ mpc' = "merged"
    /\ UNCHANGED <<lst, remerged>>
    /\ UNCHANGED pipelineVars

MergeAgain ==
    /\ mpc = "merged"
    /\ remerged' = merge_subspecies(merged)
    /\ mpc' = "remerged"
    /\ UNCHANGED <<lst, merged>>
    /\ UNCHANGED pipelineVars

InitMerge ==
    /\ pc = "idle"
    /\ obs = <<>>
    /\ idx = 0
    /\ convertible_list = <<>>
    /\ inconvertible_list = <<>>
    /\ item_idx = 0
    /\ new_name = None
    /\ try_chn_name = None
    /\ error = "none"
    /\ obs_list = <<>>
    /\ lst \in SeqsUpTo(MergeEntries, MaxLen)
    /\ merged = <<>>
    /\ remerged = <<>>
    /\ mpc = "call"

NextMerge == MergeCall \/ MergeAgain

SpecMerge == InitMerge /\ [][NextMerge]_vars

-----------------------------------------------------------------------------
\* Vocabulary of the properties.

Names(l) == [i \in 1..Len(l) |-> l[i].chinese_name]

UniqueNames(l) ==
    \A i, j \in 1..Len(l) : l[i].chinese_name = l[j].chinese_name => i = j

Group(l, n) == SelectSeq(l, LAMBDA e : e.chinese_name = n)

RECURSIVE SumCounts(_)
SumCounts(l) == IF l = <<>> THEN 0 ELSE Head(l).count + SumCounts(Tail(l))

\* the notes of l joined by line breaks, in the order of l
RECURSIVE JoinNotes(_)
JoinNotes(l) ==
    IF Len(l) = 1 THEN l[1].note ELSE l[1].note \o <<LF>> \o JoinNotes(Tail(l))

\* the names of l, each at the place of its first occurrence
RECURSIVE FirstOccurrences(_, _)
FirstOccurrences(l, seen) ==
    IF l = <<>> THEN <<>>
    ELSE IF Head(l).chinese_name \in seen THEN FirstOccurrences(Tail(l), seen)
    ELSE <<Head(l).chinese_name>>
             \o FirstOccurrences(Tail(l), seen \cup {Head(l).chinese_name})

\* the canonical name of row i of the checklist
CanonicalName(i) == StripQualifier(eb_species_code_to_taxa[obs[i].speciesCode])

HasMarkerOrExcluded(name) ==
    (\E k \in 1..(Len(name) - 3) : SubSeq(name, k, k + 3) = WeiShiBieDe)
        \/ name \in name_for_specification

\* the translations the two tables hold for a name
TargetsOf(name) ==
    {extra_name_conversion[n] : n \in {name} \cap DOMAIN extra_name_conversion}
        \cup {birdreport_chn_name_to_taxa[n] : n \in {name} \cap DOMAIN birdreport_chn_name_to_taxa}

\* a decimal literal of a non-negative integer
IsNonNegativeInteger(s) == s # <<>> /\ \A k \in 1..Len(s) : s[k] \in Digits

\* the rows obs_to_z4 has gone through, when it did not raise
Processed == IF pc = "raised" THEN {} ELSE 1..idx

-----------------------------------------------------------------------------
\* C1: the list merge_subspecies returns never holds a display name twice, so
\* the obs_list of the report holds none twice, whatever the prompt loop
\* appended to convertible_list before the merge.
C1_MergedNamesUnique ==
    /\ UniqueNames(merge_subspecies(convertible_list))
    /\ pc = "done" => UniqueNames(obs_list)

\* two sightings, both resolved by hand to the same name, end as one entry
C1_Witness ==
    /\ pc = "done"
    /\ Len(inconvertible_list) = 2
    /\ Len(convertible_list) = 2
    /\ ~UniqueNames(convertible_list)
    /\ Len(obs_list) = 1

\* C2: for every name the argument holds more than once, merge_subspecies
\* returns exactly one entry of that name, whose count is the sum of the counts
\* of the argument's entries of that name and whose note is their notes in the
\* argument's order joined by one line break; the sum of all counts is unchanged.
C2_MergeSumsAndJoins ==
    mpc # "call" =>
        /\ \A n \in DuplicateNames(lst) :
              /\ Len(Group(merged, n)) = 1
              /\ Group(merged, n)[1].count = SumCounts(Group(lst, n))
              /\ Group(merged, n)[1].note = JoinNotes(Group(lst, n))
        /\ SumCounts(merged) = SumCounts(lst)

\* three entries of one name with three different notes were merged
C2_Witness ==
    /\ mpc = "merged"
    /\ Len(lst) = 3
    /\ Len(merged) = 1
    /\ Cardinality({lst[i].note : i \in 1..3}) = 3
    /\ merged[1].count = 24

\* C3: merge_subspecies returns the names in the order of their first
\* occurrence in the argument, and an entry whose name occurs once is returned
\* as it was.
C3_MergeKeepsFirstOccurrenceOrder ==
    mpc # "call" =>
        /\ Names(merged) = FirstOccurrences(lst, {})
        /\ \A i \in 1..Len(lst) :
              lst[i].chinese_name \notin DuplicateNames(lst) =>
                  \E j \in 1..Len(merged) : merged[j] = lst[i]

\* a repeated name with another name between its two occurrences
C3_Witness ==
    /\ mpc = "merged"
    /\ Len(lst) = 3
    /\ lst[1].chinese_name = lst[3].chinese_name
    /\ lst[1].chinese_name # lst[2].chinese_name
    /\ Len(merged) = 2

\* C4: a count "X" gives count 0 and the notes followed by the count-unknown
\* annotation, a non-negative integer n gives count n and the notes unchanged,
\* any other count string raises and no row with one is ever passed; so no
\* Observation has a negative count.
C4_CountIsNonNegative ==
    /\ \A i \in Processed :
          \/ obs[i].howManyStr = <<"X">>
          \/ IsNonNegativeInteger(obs[i].howManyStr)
    /\ \A i \in 1..Len(convertible_list) : convertible_list[i].count >= 0
    /\ \A i \in 1..Len(inconvertible_list) : inconvertible_list[i].count >= 0
    /\ (pc = "obs_to_z4" /\ idx > 0) =>
          LET item == obs[idx]
              orig == IF item.comments = NaN THEN <<>> ELSE item.comments
              ob   == IF species_code_to_z4_name(item.speciesCode)[2] # None
                      THEN convertible_list[Len(convertible_list)]
                      ELSE inconvertible_list[Len(inconvertible_list)]
          IN  IF item.howManyStr = <<"X">>
              THEN ob.count = 0 /\ ob.note = orig \o CountUnknownNote
              ELSE ob.count = PyInt(item.howManyStr).val /\ ob.note = orig

\* C5: a species code whose canonical name holds the "unidentified" marker or
\* is in name_for_specification resolves to (canonical name, None), also when
\* one of the tables holds the name, and its sighting goes to inconvertible_list.
C5_MarkedAndExcludedNamesStayUnresolved ==
    pc = "obs_to_z4" =>
        /\ \A i \in 1..idx :
              HasMarkerOrExcluded(CanonicalName(i)) =>
                  /\ species_code_to_z4_name(obs[i].speciesCode) = <<CanonicalName(i), None>>
                  /\ \E j \in 1..Len(inconvertible_list) :
                        inconvertible_list[j].chinese_name = CanonicalName(i)
        /\ Len(inconvertible_list) >=
              Cardinality({i \in 1..idx : HasMarkerOrExcluded(CanonicalName(i))})

\* a marked name and an excluded name, both held by the translation table, were
\* both left unresolved
C5_Witness ==
    /\ pc = "obs_to_z4"
    /\ idx = 2
    /\ Len(inconvertible_list) = 2
    /\ \E i \in 1..2 : /\ CanonicalName(i) \in name_for_specification
                       /\ CanonicalName(i) \in DOMAIN birdreport_chn_name_to_taxa
    /\ \E i \in 1..2 : /\ Contains(CanonicalName(i), WeiShiBieDe)
                       /\ CanonicalName(i) \in DOMAIN birdreport_chn_name_to_taxa

\* C6: eb_name_to_z4_name gives the override's target for a name of
\* extra_name_conversion, also when the translation table holds the name with
\* another target; the table's target for a name of the table alone; None for
\* a name of neither.
C6_OverrideBeforeTable ==
    (new_name # None /\ new_name \notin SkipInputs) =>
        /\ new_name \in DOMAIN extra_name_conversion =>
              try_chn_name = extra_name_conversion[new_name]
        /\ (new_name \notin DOMAIN extra_name_conversion
               /\ new_name \in DOMAIN birdreport_chn_name_to_taxa) =>
              try_chn_name = birdreport_chn_name_to_taxa[new_name]
        /\ (new_name \notin DOMAIN extra_name_conversion
               /\ new_name \notin DOMAIN birdreport_chn_name_to_taxa) =>
              try_chn_name = None

\* a name both tables hold, with different targets, was looked up
C6_Witness ==
    /\ new_name \in DOMAIN extra_name_conversion \cap DOMAIN birdreport_chn_name_to_taxa
    /\ extra_name_conversion[new_name] # birdreport_chn_name_to_taxa[new_name]
    /\ try_chn_name = extra_name_conversion[new_name]
    /\ convertible_list # <<>>
    /\ convertible_list[Len(convertible_list)].chinese_name = RiBenYingXiao

\* the Observations the first i rows yield for one of the two lists, in the
\* order of the rows: for the convertible list (conv = TRUE) those of the rows
\* the resolver gave a target name, under that name, and for the other list the
\* rest, under their canonical names
RECURSIVE ExpectedList(_, _)
ExpectedList(i, conv) ==
    IF i = 0 THEN <<>>
    ELSE LET r      == species_code_to_z4_name(obs[i].speciesCode)
             hasTgt == r[2] # None
             ob     == [RowResult(obs[i]).ob EXCEPT
                           !.chinese_name = IF hasTgt THEN r[2] ELSE r[1]]
         IN  IF hasTgt = conv THEN Append(ExpectedList(i - 1, conv), ob)
             ELSE ExpectedList(i - 1, conv)

\* obs_to_z4 has just returned its two lists to line 170
Returned == pc = "prompt" /\ item_idx = 1 /\ new_name = None

\* C7: obs_to_z4 puts every sighting in exactly one of its two lists: in
\* convertible_list under the target name when the resolver gave one, else in
\* inconvertible_list under the canonical name; each list is in the order of
\* the rows, and the two lengths add up to the number of rows gone through.
C7_ObsToZ4Partitions ==
    /\ pc = "obs_to_z4" \/ Returned =>
          /\ inconvertible_list = ExpectedList(idx, FALSE)
          /\ convertible_list = ExpectedList(idx, TRUE)
          /\ Len(convertible_list) + Len(inconvertible_list) = idx
    /\ pc \in {"prompt", "done"} => idx = Len(obs)

\* obs_to_z4 has returned two sightings in one list, the lists telling them apart
C7_Witness ==
    /\ Returned
    /\ Len(obs) = 2
    /\ \/ Len(inconvertible_list) = 2 /\ inconvertible_list[1] # inconvertible_list[2]
       \/ Len(convertible_list) = 2 /\ convertible_list[1] # convertible_list[2]

\* what one answer of the prompter may do to the loop (see C8 below)
C8_PromptStep ==
    Prompting =>
        LET item == inconvertible_list[item_idx]
        IN  /\ pc' = "prompt"
            /\ inconvertible_list' = inconvertible_list
            /\ \/ /\ new_name' \in SkipInputs
                  /\ item_idx' = item_idx + 1
                  /\ convertible_list' = convertible_list
               \/ /\ new_name' \notin SkipInputs
                  /\ TargetsOf(new_name') # {}
                  /\ item_idx' = item_idx + 1
                  /\ \E t \in TargetsOf(new_name') :
                        convertible_list' =
                            Append(convertible_list,
                                   BirdReportObsInfo(t, item.count, item.note))
               \/ /\ new_name' \notin SkipInputs
                  /\ TargetsOf(new_name') = {}
                  /\ item_idx' = item_idx
                  /\ convertible_list' = convertible_list

\* C8: an answer of the prompter does one of three things.  The skip sentinel
\* moves on to the next item and adds no entry.  A name the tables translate
\* adds exactly one Observation, of the translated name and the item's count
\* and note, and moves on.  Any other name adds nothing and leaves the loop at
\* the same item, to be prompted again.  No step of the loop does anything else.
C8_ManualResolutionLoop == [][C8_PromptStep]_vars

\* of two items the first was resolved by hand; the second was refused a name
\* and then skipped, and the report holds the first alone
C8_Witness ==
    /\ pc = "done"
    /\ Len(obs) = 2
    /\ Len(inconvertible_list) = 2
    /\ Len(convertible_list) = 1
    /\ new_name \in SkipInputs
    /\ try_chn_name = None
    /\ Len(obs_list) = 1

\* C9 as stated: the conversion is given up for a malformed count only, so a
\* conversion that raised stopped at a row whose count is neither "X" nor a number.
C9_OnlyMalformedCountAborts ==
    pc = "raised" =>
        /\ obs[idx + 1].howManyStr # <<"X">>
        /\ ~PyInt(obs[idx + 1].howManyStr).ok

\* C9 as the code has it: a species code the taxonomy lacks raises KeyError at
\* its row and ends the whole conversion, as a malformed count does with
\* ValueError: no row is passed over, nothing is returned, and no Observation
\* is made up for the row.
C9_UnknownCodeAbortsConversion ==
    /\ \A i \in Processed : obs[i].speciesCode \in DOMAIN eb_species_code_to_taxa
    /\ pc = "raised" =>
          /\ error \in {"KeyError", "ValueError"}
          /\ error = "KeyError" <=>
                /\ obs[idx + 1].speciesCode \notin DOMAIN eb_species_code_to_taxa
                /\ \/ obs[idx + 1].howManyStr = <<"X">>
                   \/ PyInt(obs[idx + 1].howManyStr).ok
          /\ convertible_list = <<>>
          /\ inconvertible_list = <<>>
          /\ obs_list = <<>>
    /\ pc \in {"prompt", "done"} => error = "none"

\* a sighting was converted, the next one has an unknown code, and nothing is
\* returned
C9_Witness ==
    /\ pc = "raised"
    /\ error = "KeyError"
    /\ idx = 1
    /\ obs[1].speciesCode \in DOMAIN eb_species_code_to_taxa
    /\ obs[2].speciesCode = UnknownCode

\* C10: merge_subspecies applied to its own result returns that result, and a
\* list without a repeated name is returned as it is.
C10_MergeIdempotent ==
    /\ mpc = "remerged" => remerged = merged
    /\ (mpc # "call" /\ UniqueNames(lst)) => merged = lst

\* a list with a repeated name was merged, and the result merged again
C10_Witness ==
    /\ mpc = "remerged"
    /\ Len(lst) = 3
    /\ Len(merged) = 2
    /\ remerged = merged

====
